---- MODULE Spec2Model ----
(***************************************************************************)
(* California Legislative Bill Scanner (scan_bills.py).                    *)
(*                                                                         *)
(* One run of CALegislativeScanner.scan_and_update is modelled as the      *)
(* steps Load, Fetch, Filter, Merge, Save, Summary; the process then exits *)
(* (or dies on an uncaught KeyError) and the scheduler starts the next     *)
(* run.  bills.json and scan_results.txt are the only state that survives  *)
(* a run.                                                                  *)
(***************************************************************************)
EXTENDS Integers, Sequences, FiniteSets, TLC

\* ------------------------------------------------------------------ bounds

\* Longest candidate batch the Source Adapter returns in the scan model.
MaxCands == 2
\* Number of scheduled runs explored.
MaxScans == 2
\* Longest candidate batch handed to the filter in the filter model.
MaxFilterLen == 2

\* ----------------------------------------------------------------- strings

Range(s) == {s[i] : i \in 1..Len(s)}

SeqsUpTo(S, n) == UNION {[1..k -> S] : k \in 0..n}

HousingChars ==
    <<"H", "o", "u", "s", "i", "n", "g">>
JudiciaryChars ==
    <<"J", "u", "d", "i", "c", "i", "a", "r", "y">>
AppropriationsChars ==
    <<"A", "p", "p", "r", "o", "p", "r", "i", "a", "t", "i", "o", "n", "s">>

\* The characters of each committee name that occurs in the model.
Chars(s) ==
    CASE s = "Senate Housing" ->
        <<"S", "e", "n", "a", "t", "e", " ", "H", "o", "u", "s", "i", "n", "g">>
      [] s = "Senate Judiciary" ->
        <<"S", "e", "n", "a", "t", "e", " ", "J", "u", "d", "i", "c", "i", "a", "r", "y">>
      [] s = "Senate Education" ->
        <<"S", "e", "n", "a", "t", "e", " ", "E", "d", "u", "c", "a", "t", "i", "o", "n">>
      [] s = "Senate Appropriations" ->
        <<"S", "e", "n", "a", "t", "e", " ", "A", "p", "p", "r", "o", "p", "r", "i", "a", "t", "i", "o", "n", "s">>
      [] s = "Senate Floor" ->
        <<"S", "e", "n", "a", "t", "e", " ", "F", "l", "o", "o", "r">>
      [] s = "Housing" ->
        <<"H", "o", "u", "s", "i", "n", "g">>
      [] s = "Senate housing" ->
        <<"S", "e", "n", "a", "t", "e", " ", "h", "o", "u", "s", "i", "n", "g">>
      [] s = "Assembly Judiciary Subcommittee" ->
        <<"A", "s", "s", "e", "m", "b", "l", "y", " ", "J", "u", "d", "i", "c", "i", "a", "r", "y", " ", "S", "u", "b", "c", "o", "m", "m", "i", "t", "t", "e", "e">>
      [] s = "appropriations" ->
        <<"a", "p", "p", "r", "o", "p", "r", "i", "a", "t", "i", "o", "n", "s">>
      [] s = "" ->
        <<>>

\* A plausible slip: exact comparison instead of Python's substring test.
PyInExact(needle, hay) == needle = hay

\* Python's `needle in hay` on two strings: hay has a slice equal to needle.
PyIn(needle, hay) ==
    \E k \in 0..(Len(hay) - Len(needle)) :
        SubSeq(hay, k + 1, k + Len(needle)) = needle

\* dict.get(key, default)
Get(d, key, default) == IF key \in DOMAIN d THEN d[key] ELSE default

\* --------------------------------------------------------- candidate bills

Candidate(bn, title, cp, cc) ==
    [bill_number |-> bn, title |-> title, author |-> "Garcia",
     summary |-> "Streamlines housing development approval processes.",
     committees_passed |-> cp, current_committee |-> cc,
     status |-> "In Committee", last_action |-> "2025-07-25",
     url |-> "https://leginfo.legislature.ca.gov/"]

\* The record c as the source would deliver it without the key f.
Drop(c, f) == [k \in (DOMAIN c) \ {f} |-> c[k]]

Mock1234 ==
    Candidate("AB-1234", "Housing Development Streamlining Act",
              <<"Senate Housing", "Senate Judiciary">>, "Senate Appropriations")
Mock5678 ==
    Candidate("AB-5678", "Tenant Protection Enhancement",
              <<"Senate Housing">>, "Senate Appropriations")

\* ------------------------------------------------------- relevance filter

\* any('Housing' in committee or 'Judiciary' in committee for committee in ...)
RECURSIVE AnyHousingOrJudiciary(_)
AnyHousingOrJudiciary(committees_passed) ==
    IF committees_passed = <<>> THEN FALSE
    ELSE \/ PyIn(HousingChars, Chars(Head(committees_passed)))
         \/ PyIn(JudiciaryChars, Chars(Head(committees_passed)))
         \/ AnyHousingOrJudiciary(Tail(committees_passed))

\* The body of the loop of filter_relevant_bills for one bill.
IsRelevant(bill) ==
    LET committees_passed == Get(bill, "committees_passed", <<>>)
        current_committee == Get(bill, "current_committee", "")
        has_housing_or_judiciary == AnyHousingOrJudiciary(committees_passed)
        is_in_appropriations == PyIn(AppropriationsChars, Chars(current_committee))
    IN  has_housing_or_judiciary /\ is_in_appropriations

RECURSIVE FilterLoop(_, _)
FilterLoop(bills, relevant_bills) ==
    IF bills = <<>> THEN relevant_bills
    ELSE FilterLoop(Tail(bills),
                    IF IsRelevant(Head(bills))
                    THEN Append(relevant_bills, Head(bills))
                    ELSE relevant_bills)

filter_relevant_bills(bills) == FilterLoop(bills, <<>>)

\* ------------------------------------------------------------ tracked bills

\* 'id': None, until the merge numbers the bill.
NoneId == -1

Tracked(id, bn, title, analysisStatus, priority, dateAdded, notes) ==
    [id |-> id, billNumber |-> bn, title |-> title, author |-> "Garcia",
     committees |-> <<"Senate Housing">>,
     currentStatus |-> "Senate Appropriations",
     analysisStatus |-> analysisStatus, priority |-> priority,
     dateAdded |-> dateAdded, notes |-> notes,
     summary |-> "Streamlines housing development approval processes.",
     lastAction |-> "2025-07-25",
     url |-> "https://leginfo.legislature.ca.gov/"]

\* The keys convert_to_tracker_format subscripts: a missing one raises KeyError.
ConvertKeys ==
    {"bill_number", "title", "author", "committees_passed",
     "current_committee", "summary"}

ConvertRaises(legislative_bill) == ~(ConvertKeys \subseteq DOMAIN legislative_bill)

\* A plausible slip: the natural key is taken from the wrong field.
convert_wrong_key(legislative_bill, today) ==
    [id |-> NoneId,
     billNumber |-> legislative_bill.title,
     title |-> legislative_bill.title,
     author |-> legislative_bill.author,
     committees |-> legislative_bill.committees_passed,
     currentStatus |-> legislative_bill.current_committee,
     analysisStatus |-> "needs-analysis",
     priority |-> "medium",
     dateAdded |-> today,
     notes |-> "",
     summary |-> legislative_bill.summary,
     lastAction |-> Get(legislative_bill, "last_action", ""),
     url |-> Get(legislative_bill, "url", "")]

convert_to_tracker_format(legislative_bill, today) ==
    [id |-> NoneId,
     billNumber |-> legislative_bill.bill_number,
     title |-> legislative_bill.title,
     author |-> legislative_bill.author,
     committees |-> legislative_bill.committees_passed,
     currentStatus |-> legislative_bill.current_committee,
     analysisStatus |-> "needs-analysis",
     priority |-> "medium",
     dateAdded |-> today,
     notes |-> "",
     summary |-> legislative_bill.summary,
     lastAction |-> Get(legislative_bill, "last_action", ""),
     url |-> Get(legislative_bill, "url", "")]

\* ------------------------------------------------------------------ merge

\* existing_bill_numbers = {bill['billNumber'] for bill in existing_bills}
ExistingBillNumbers(existing) == {existing[i].billNumber : i \in 1..Len(existing)}

\* A plausible slip: the membership test is lost and every candidate is new.
IsNewAlways(leg_bill, existing_bill_numbers) == TRUE

\* leg_bill['bill_number'] not in existing_bill_numbers
IsNew(leg_bill, existing_bill_numbers) ==
    leg_bill.bill_number \notin existing_bill_numbers

\* The loop that builds new_bills; raised is TRUE when a subscript raised KeyError.
RECURSIVE NewBillsLoop(_, _, _, _)
NewBillsLoop(relevant, existing_bill_numbers, today, acc) ==
    IF relevant = <<>> THEN [raised |-> FALSE, new_bills |-> acc]
    ELSE LET leg_bill == Head(relevant)
         IN  IF "bill_number" \notin DOMAIN leg_bill
             THEN [raised |-> TRUE, new_bills |-> acc]
             ELSE IF IsNew(leg_bill, existing_bill_numbers)
                  THEN IF ConvertRaises(leg_bill)
                       THEN [raised |-> TRUE, new_bills |-> acc]
                       ELSE NewBillsLoop(Tail(relevant), existing_bill_numbers, today,
                                Append(acc, convert_to_tracker_format(leg_bill, today)))
                  ELSE NewBillsLoop(Tail(relevant), existing_bill_numbers, today, acc)

Max(S) == CHOOSE m \in S : \A x \in S : x <= m

\* max([bill.get('id', 0) for bill in existing_bills], default=0)
MaxId(existing) ==
    IF existing = <<>> THEN 0
    ELSE Max({Get(existing[i], "id", 0) : i \in 1..Len(existing)})

\* A plausible slip: the "+ 1" is forgotten, so numbering starts at max_id.
AssignIdsOffByOne(new, max_id) ==
    [i \in 1..Len(new) |-> [new[i] EXCEPT !.id = max_id + (i - 1)]]

\* for i, bill in enumerate(new_bills): bill['id'] = max_id + i + 1
AssignIds(new, max_id) ==
    [i \in 1..Len(new) |-> [new[i] EXCEPT !.id = max_id + (i - 1) + 1]]

\* --------------------------------------------------------- loader/persister

AbsentFile == [state |-> "absent", bills |-> <<>>]

\* What load_existing_bills may do on the file: return or raise inside the try.
LoadOutcomes(file) ==
    CASE file.state = "absent" -> {"ok"}
      [] file.state = "ok" -> {"ok", "raise"}
      [] file.state = "corrupt" -> {"raise"}

load_existing_bills(file, outcome, res) ==
    IF outcome = "ok"
    THEN [bills |-> file.bills, results |-> res]
    ELSE [bills |-> <<>>,
          results |-> [res EXCEPT !.errors =
                          Append(@, "Error loading existing bills")]]

\* open() may raise before the file is touched; json.dump may raise after open()
\* has truncated it.
SaveOutcomes == {"ok", "open_raise", "dump_raise"}

save_bills(bills, outcome, file, res) ==
    CASE outcome = "ok" ->
            [file |-> [state |-> "ok", bills |-> bills], results |-> res]
      [] outcome = "open_raise" ->
            [file |-> file,
             results |-> [res EXCEPT !.errors = Append(@, "Error saving bills")]]
      [] outcome = "dump_raise" ->
            [file |-> [state |-> "corrupt", bills |-> <<>>],
             results |-> [res EXCEPT !.errors = Append(@, "Error saving bills")]]

\* ------------------------------------------------------------------ state

VARIABLES
    bills_json,         \* bills.json: [state, bills]
    scan_results,       \* scan_results.txt: <<>> or one written summary
    pc,                 \* position of the run in scan_and_update
    results,            \* self.results
    existing_bills,     \* locals of scan_and_update
    legislative_bills,
    relevant_bills,
    new_bills,
    all_bills,
    scanNo,             \* number of the run; also stands for today's date
    calls,              \* history: collaborator calls of this run, in order
    failures,           \* history: exceptions caught during this run, in order
    persisted_before,   \* history: the bills in bills.json when the run began
    assigned            \* history: every (id, billNumber, scan) the merge numbered

vars ==
    <<bills_json, scan_results, pc, results, existing_bills, legislative_bills,
      relevant_bills, new_bills, all_bills, scanNo, calls, failures,
      persisted_before, assigned>>

\* self.results as __init__ builds it.
InitResults(now) ==
    [scan_date |-> now, bills_found |-> 0, new_bills |-> 0, errors |-> <<>>]

\* Keys of a candidate record that the claims call required.
RequiredKeys ==
    {"bill_number", "title", "author", "summary", "committees_passed",
     "current_committee", "last_action", "url"}

\* Candidate records the Source Adapter may return when several runs are explored.
ScanCandidates ==
    {Mock1234,
     Mock5678,
     Candidate("AB-5678", "Tenant Protection Enhancement",
               <<"Senate Education">>, "Senate Appropriations"),
     Drop(Mock5678, "title")}

ScanBatches == SeqsUpTo(ScanCandidates, MaxCands)

\* Candidate records the Source Adapter may return when one run is explored:
\* the same bill re-reported with other data, bills that fail either half of
\* the relevance test, and records that lack one key.
RunCandidates ==
    {Mock1234,
     Candidate("AB-1234", "Housing Development Streamlining Act (amended)",
               <<"Senate Judiciary">>, "Senate Appropriations"),
     Mock5678,
     Candidate("AB-5678", "Tenant Protection Enhancement",
               <<"Senate Education">>, "Senate Appropriations"),
     Candidate("AB-1234", "Housing Development Streamlining Act",
               <<"Senate Judiciary">>, "Senate Floor")}
    \cup {Drop(Mock5678, f) : f \in RequiredKeys}

RunBatches == SeqsUpTo(RunCandidates, MaxCands)

\* bills.json as a run may find it: no file, or a collection that earlier runs
\* wrote and a curator has edited since.
InitialFiles ==
    {AbsentFile,
     [state |-> "ok",
      bills |-> <<Tracked(1, "AB-1234", "Housing Development Streamlining Act",
                          "in-review", "high", 0, "hearing on 8/12")>>],
     [state |-> "ok",
      bills |-> <<Tracked(5, "AB-9999", "Criminal Justice Reform Act",
                          "needs-analysis", "medium", 0, ""),
                  Tracked(2, "AB-5678", "Tenant Protection Enhancement",
                          "analyzed", "low", 0, "oppose unless amended")>>]}

Init ==
    /\ bills_json \in InitialFiles
    /\ scan_results = <<>>
    /\ pc = "start"
    /\ results = InitResults(1)
    /\ existing_bills = <<>>
    /\ legislative_bills = <<>>
    /\ relevant_bills = <<>>
    /\ new_bills = <<>>
    /\ all_bills = <<>>
    /\ scanNo = 1
    /\ calls = <<>>
    /\ failures = <<>>
    /\ persisted_before = bills_json.bills
    /\ assigned = {}

\* ---------------------------------------------------------------- actions

\* existing_bills = self.load_existing_bills()
Load ==
    /\ pc = "start"
    /\ \E outcome \in LoadOutcomes(bills_json) :
          LET r == load_existing_bills(bills_json, outcome, results)
          IN  /\ existing_bills' = r.bills
              /\ results' = r.results
              /\ failures' = IF outcome = "ok" THEN failures
                             ELSE Append(failures, "load")
    /\ calls' = Append(calls, "load")
    /\ pc' = "loaded"
    /\ UNCHANGED <<bills_json, scan_results, legislative_bills, relevant_bills,
                   new_bills, all_bills, scanNo, persisted_before, assigned>>

\* legislative_bills = self.get_assembly_bills_from_leginfo(): the adapter
\* returns a batch, or raises inside the try and the empty list is returned.
Fetch(batches) ==
    /\ pc = "loaded"
    /\ \/ /\ \E batch \in batches : legislative_bills' = batch
          /\ UNCHANGED <<results, failures>>
       \/ /\ legislative_bills' = <<>>
          /\ results' = [results EXCEPT !.errors =
                            Append(@, "Error scraping legislative data")]
          /\ failures' = Append(failures, "fetch")
    /\ calls' = Append(calls, "fetch")
    /\ pc' = "fetched"
    /\ UNCHANGED <<bills_json, scan_results, existing_bills, relevant_bills,
                   new_bills, all_bills, scanNo, persisted_before, assigned>>

\* relevant_bills = self.filter_relevant_bills(legislative_bills)
Filter ==
    /\ pc = "fetched"
    /\ relevant_bills' = filter_relevant_bills(legislative_bills)
    /\ results' = [results EXCEPT !.bills_found = Len(relevant_bills')]
    /\ pc' = "filtered"
    /\ UNCHANGED <<bills_json, scan_results, existing_bills, legislative_bills,
                   new_bills, all_bills, scanNo, calls, failures,
                   persisted_before, assigned>>

\* The merge of scan_and_update as a function of what was loaded and filtered:
\* the new_bills loop, then the numbering and the concatenation when new_bills
\* is not empty.  raised is TRUE when the loop raised KeyError.
merge(existing, relevant, today) ==
    LET loop == NewBillsLoop(relevant, ExistingBillNumbers(existing), today, <<>>)
        numbered == AssignIds(loop.new_bills, MaxId(existing))
    IN  IF loop.raised
        THEN [raised |-> TRUE, new_bills |-> <<>>, all_bills |-> <<>>]
        ELSE IF loop.new_bills # <<>>
             THEN [raised |-> FALSE, new_bills |-> numbered,
                   all_bills |-> existing \o numbered]
             ELSE [raised |-> FALSE, new_bills |-> <<>>, all_bills |-> <<>>]

\* The merge step of a run.  An uncaught KeyError ends the process.
Merge ==
    /\ pc = "filtered"
    /\ LET m == merge(existing_bills, relevant_bills, scanNo)
       IN  IF m.raised
           THEN /\ pc' = "crashed"
                /\ UNCHANGED <<new_bills, all_bills, assigned>>
           ELSE /\ pc' = "merged"
                /\ new_bills' = m.new_bills
                /\ all_bills' = m.all_bills
                /\ assigned' = assigned \cup
                      {[id |-> m.new_bills[i].id,
                        billNumber |-> m.new_bills[i].billNumber,
                        scan |-> scanNo] : i \in 1..Len(m.new_bills)}
    /\ UNCHANGED <<bills_json, scan_results, results, existing_bills,
                   legislative_bills, relevant_bills, scanNo, calls, failures,
                   persisted_before>>

\* The collection scan_and_update hands to save_bills.
SaveArg(existing, new, all) == IF new # <<>> THEN all ELSE existing

SaveArgument == SaveArg(existing_bills, new_bills, all_bills)

\* A plausible slip: the else branch only prints and the timestamp refresh is lost.
SaveOnlyIfNew ==
    /\ pc = "merged"
    /\ IF new_bills # <<>>
       THEN \E outcome \in SaveOutcomes :
              LET r == save_bills(SaveArgument, outcome, bills_json, results)
              IN  /\ bills_json' = r.file
                  /\ results' = [r.results EXCEPT !.new_bills = Len(new_bills)]
                  /\ failures' = IF outcome = "ok" THEN failures
                                 ELSE Append(failures, "save")
                  /\ calls' = Append(calls, "save")
       ELSE UNCHANGED <<bills_json, results, failures, calls>>
    /\ pc' = "saved"
    /\ UNCHANGED <<scan_results, existing_bills, legislative_bills, relevant_bills,
                   new_bills, all_bills, scanNo, persisted_before, assigned>>

\* self.save_bills(all_bills) and the new_bills count, or
\* self.save_bills(existing_bills) when nothing was admitted.
Save ==
    /\ pc = "merged"
    /\ \E outcome \in SaveOutcomes :
          LET r == save_bills(SaveArgument, outcome, bills_json, results)
          IN  /\ bills_json' = r.file
              /\ results' = IF new_bills # <<>>
                            THEN [r.results EXCEPT !.new_bills = Len(new_bills)]
                            ELSE r.results
              /\ failures' = IF outcome = "ok" THEN failures
                             ELSE Append(failures, "save")
    /\ calls' = Append(calls, "save")
    /\ pc' = "saved"
    /\ UNCHANGED <<scan_results, existing_bills, legislative_bills, relevant_bills,
                   new_bills, all_bills, scanNo, persisted_before, assigned>>

\* self.write_scan_summary(): the file is written, or open()/write() raises and
\* the handler only prints.
Summary ==
    /\ pc = "saved"
    /\ \/ /\ scan_results' = <<[bills_found |-> results.bills_found,
                                new_bills |-> results.new_bills,
                                errors |-> results.errors,
                                last_scan |-> results.scan_date]>>
          /\ UNCHANGED failures
       \/ /\ failures' = Append(failures, "summary")
          /\ UNCHANGED scan_results
    /\ calls' = Append(calls, "summary")
    /\ pc' = "done"
    /\ UNCHANGED <<bills_json, results, existing_bills, legislative_bills,
                   relevant_bills, new_bills, all_bills, scanNo,
                   persisted_before, assigned>>

\* The process has ended; the scheduler starts the next run on a fresh checkout
\* (bills.json is committed, scan_results.txt is not) and a new scanner is
\* constructed.
NextRun ==
    /\ pc \in {"done", "crashed"}
    /\ scanNo < MaxScans
    /\ scanNo' = scanNo + 1
    /\ pc' = "start"
    /\ results' = InitResults(scanNo + 1)
    /\ existing_bills' = <<>>
    /\ legislative_bills' = <<>>
    /\ relevant_bills' = <<>>
    /\ new_bills' = <<>>
    /\ all_bills' = <<>>
    /\ calls' = <<>>
    /\ failures' = <<>>
    /\ persisted_before' = bills_json.bills
    /\ scan_results' = <<>>
    /\ UNCHANGED <<bills_json, assigned>>

\* Successive scheduled runs.
Next ==
    \/ Load
    \/ Fetch(ScanBatches)
    \/ Filter
    \/ Merge
    \/ Save
    \/ Summary
    \/ NextRun

Spec == Init /\ [][Next]_vars

\* One run, over the wider set of candidate batches.
NextOneRun ==
    \/ Load
    \/ Fetch(RunBatches)
    \/ Filter
    \/ Merge
    \/ Save
    \/ Summary

SpecOneRun == Init /\ [][NextOneRun]_vars

\* ------------------------------------------------------- the filter alone

FilterCommitteeLists ==
    {<<>>,
     <<"Senate Housing">>,
     <<"Senate Judiciary">>,
     <<"Senate Education">>,
     <<"Senate Education", "Senate Housing">>,
     <<"Senate Floor", "Senate Education">>,
     <<"Senate housing">>,
     <<"Housing">>,
     <<"Assembly Judiciary Subcommittee">>}

FilterCurrentCommittees ==
    {"Senate Appropriations", "Senate Floor", "Senate Judiciary",
     "appropriations", ""}

FilterCandidates ==
    {Candidate("AB-1234", "Housing Development Streamlining Act", cp, cc) :
        cp \in FilterCommitteeLists, cc \in FilterCurrentCommittees}
    \cup {Drop(Mock1234, "committees_passed"), Drop(Mock1234, "current_committee")}

FilterBatches == SeqsUpTo(FilterCandidates, MaxFilterLen)

\* A run that has just fetched some batch.
InitFilter ==
    /\ bills_json = AbsentFile
    /\ scan_results = <<>>
    /\ pc = "fetched"
    /\ results = InitResults(1)
    /\ existing_bills = <<>>
    /\ legislative_bills \in FilterBatches
    /\ relevant_bills = <<>>
    /\ new_bills = <<>>
    /\ all_bills = <<>>
    /\ scanNo = 1
    /\ calls = <<"load", "fetch">>
    /\ failures = <<>>
    /\ persisted_before = <<>>
    /\ assigned = {}

SpecFilter == InitFilter /\ [][Filter]_vars

\* ================================================================ claims

IsPrefix(s, t) == Len(s) <= Len(t) /\ SubSeq(t, 1, Len(s)) = s

DistinctBy(bills, key) ==
    \A i, j \in 1..Len(bills) : bills[i][key] = bills[j][key] => i = j

Merged == pc \in {"merged", "saved", "done"}

\* C1: after a merge over an existing collection with pairwise distinct bill
\* numbers and ids, the collection handed on has no two bills with the same
\* billNumber and no two with the same id.
C1_Uniqueness ==
    (/\ Merged
     /\ DistinctBy(existing_bills, "billNumber")
     /\ DistinctBy(existing_bills, "id"))
    => /\ DistinctBy(SaveArgument, "billNumber")
       /\ DistinctBy(SaveArgument, "id")

\* C2: every bill that was in bills.json when a run began is still in
\* bills.json, with the same fields, when the run has ended (stated for the
\* runs in which save_bills itself did not fail).
C2_NeverDeleted ==
    (pc \in {"done", "crashed"} /\ "save" \notin Range(failures))
    => \A i \in 1..Len(persisted_before) :
          \E j \in 1..Len(bills_json.bills) :
              bills_json.bills[j] = persisted_before[i]

\* C3: when the load succeeded, the collection handed to save_bills begins with
\* the persisted bills, in order and field for field, and no bill after them
\* has the bill number of a persisted bill.
C3_CurationPreserved ==
    (Merged /\ "load" \notin Range(failures))
    => /\ IsPrefix(persisted_before, SaveArgument)
       /\ \A i \in (Len(persisted_before) + 1)..Len(SaveArgument) :
             \A j \in 1..Len(persisted_before) :
                 SaveArgument[i].billNumber # persisted_before[j].billNumber

C3_Witness ==
    /\ pc = "merged"
    /\ "load" \notin Range(failures)
    /\ new_bills # <<>>
    /\ \E j \in 1..Len(persisted_before) :
          /\ persisted_before[j].notes # ""
          /\ persisted_before[j].priority # "medium"
          /\ \E i \in 1..Len(relevant_bills) :
                /\ relevant_bills[i].bill_number = persisted_before[j].billNumber
                /\ relevant_bills[i].title # persisted_before[j].title

C4_Admitted(c) ==
    Get(c, "bill_number", "") \notin ExistingBillNumbers(existing_bills)

\* C4: the bills a run admits are the relevant candidates whose number is not
\* among the loaded bills, in candidate order, and the i-th of them has id
\* max_id + i, max_id being the largest loaded id, or 0 when nothing was loaded.
C4_MonotonicIds ==
    Merged =>
       LET admitted == SelectSeq(relevant_bills, C4_Admitted)
           ids == {existing_bills[j].id : j \in 1..Len(existing_bills)}
       IN  /\ Len(new_bills) = Len(admitted)
           /\ \A i \in 1..Len(new_bills) :
                 /\ new_bills[i].billNumber = admitted[i].bill_number
                 /\ new_bills[i].title = admitted[i].title
                 /\ \A x \in ids : x < new_bills[i].id
                 /\ \/ ids = {} /\ new_bills[i].id = i
                    \/ (new_bills[i].id - i) \in ids
                 /\ i > 1 => new_bills[i].id = new_bills[i - 1].id + 1

C4_Witness ==
    /\ pc = "merged"
    /\ Len(existing_bills) = 2
    /\ existing_bills[1].id > existing_bills[2].id
    /\ Len(new_bills) = 2
    /\ new_bills[1].id = existing_bills[1].id + 1

\* C5: an id the merge gave to one bill number is never given to another bill
\* number, and a later run gives only ids above those of earlier runs.
C5_IdsNeverReused ==
    \A p, q \in assigned :
        /\ p.id = q.id => p.billNumber = q.billNumber
        /\ p.scan < q.scan => p.id < q.id

\* C6: merging the same candidates again, with the collection handed on by the
\* first merge as the existing one, admits nothing and hands on that same
\* collection.
C6_Idempotent ==
    Merged =>
       LET second == merge(SaveArgument, filter_relevant_bills(legislative_bills),
                           scanNo)
       IN  /\ ~second.raised
           /\ second.new_bills = <<>>
           /\ SaveArg(SaveArgument, second.new_bills, second.all_bills) = SaveArgument

C6_Witness ==
    /\ pc = "merged"
    /\ existing_bills # <<>>
    /\ Len(new_bills) = 2
    /\ new_bills[1].billNumber = new_bills[2].billNumber

\* Committee names of the model in which a reader finds the word, by inspection.
C7_HousingOrJudiciaryNames ==
    {"Senate Housing", "Senate Judiciary", "Housing",
     "Assembly Judiciary Subcommittee"}

C7_AppropriationsNames == {"Senate Appropriations"}

C7_Keep(c) ==
    /\ "committees_passed" \in DOMAIN c
    /\ \E i \in 1..Len(c.committees_passed) :
          c.committees_passed[i] \in C7_HousingOrJudiciaryNames
    /\ "current_committee" \in DOMAIN c
    /\ c.current_committee \in C7_AppropriationsNames

\* C7: the filter keeps exactly the candidates with a passed committee naming
\* Housing or Judiciary and a current committee naming Appropriations, in input
\* order; an empty committees-passed list is never kept.
C7_FilterCorrect ==
    pc = "filtered"
    => /\ relevant_bills = SelectSeq(legislative_bills, C7_Keep)
       /\ \A i \in 1..Len(relevant_bills) :
             relevant_bills[i].committees_passed # <<>>

C7_Witness ==
    /\ pc = "filtered"
    /\ Len(legislative_bills) = 2
    /\ Get(legislative_bills[1], "committees_passed", <<"?">>) = <<>>
    /\ Get(legislative_bills[1], "current_committee", "") = "Senate Appropriations"
    /\ relevant_bills = <<legislative_bills[2]>>
    /\ relevant_bills[1].committees_passed = <<"Assembly Judiciary Subcommittee">>

\* C8: a run calls the loader once, before anything else, and save_bills once,
\* after the merge and before the summary; a completed run has made all three
\* calls, whether or not it admitted a bill.
C8_ReadOnceWriteOnce ==
    /\ IsPrefix(calls, <<"load", "fetch", "save", "summary">>)
    /\ "save" \in Range(calls) => pc \in {"saved", "done"}
    /\ pc \in {"merged", "crashed"} => "save" \notin Range(calls)
    /\ pc \in {"saved", "done"} => "save" \in Range(calls)
    /\ pc = "done" => calls = <<"load", "fetch", "save", "summary">>

C8_Witness ==
    /\ pc = "done"
    /\ relevant_bills # <<>>
    /\ new_bills = <<>>
    /\ results.new_bills = 0
    /\ calls = <<"load", "fetch", "save", "summary">>

\* C9: when a run has completed, every failure caught during it is in the error
\* list exactly once, and a written summary carries that list.
C9_ErrorsRecorded ==
    pc = "done"
    => /\ Len(results.errors) = Len(failures)
       /\ scan_results # <<>> => scan_results[1].errors = results.errors

\* C10: a run whose batch holds a record that lacks a required key never gets
\* past the merge: it ends before save_bills is called.
C10_MalformedAborts ==
    (\E i \in 1..Len(legislative_bills) :
        ~(RequiredKeys \subseteq DOMAIN legislative_bills[i]))
    => /\ ~Merged
       /\ "save" \notin Range(calls)

====
